---- MODULE Spec2Model ----
(***************************************************************************)
(* Model of the tool orchestration engine of agent_workflow:               *)
(*   - ToolIntentParser.parse_intent, ToolExecutor.execute_tools,          *)
(*     serial_execute_tools and _execute_single_tool (tool_executor.py);   *)
(*   - ResourceManager, MasterAgent._process_task_queue,                   *)
(*     _handle_single_task, process and chat_ui_process (task_agent.py).   *)
(* Spec     : one request driven through ToolExecutor.execute_tools.       *)
(* SpecAdm  : concurrent requests competing for ResourceManager slots.     *)
(***************************************************************************)
EXTENDS Integers, Sequences, FiniteSets, TLC

(***************************************************************************)
(* Bounds of the model                                                     *)
(***************************************************************************)
\* longest "tasks" list the language model answers with
MaxTasks == 2
\* passes of the retry loop of one task that are counted; further passes
\* leave the count at this value
MaxIter == 4

\* plans that run serial_execute_tools concurrently
NumPlans == 2
\* tasks of each of these plans
PlanLen == 2

\* largest configured value of MAX_CONCURRENT that is explored
MaxConfigured == 2
\* concurrent callers of chat_ui_process (web requests)
NumDirect == 2
\* concurrent callers of MasterAgent.process
NumProc == 1
\* requests put on MasterAgent.task_queue as chat_ui_process keyword arguments
NumQueued == 1

(***************************************************************************)
(* Program constants                                                       *)
(***************************************************************************)
\* max_retries of _execute_single_tool
max_retries == 3
\* max_retries of optimize_parameters
opt_max_retries == 3

\* SystemMonitor thresholds set by ResourceManager.__init__
cpu_threshold == 80
memory_threshold == 85
disk_threshold == 90
\* MasterAgent.process: "get_active_tasks() >= 3"
process_busy_threshold == 3

\* the registered tools (keys of ToolExecutor.tools)
Tools == {"WeatherTool", "ChatTool"}

(***************************************************************************)
(* The language model's answer to the intent prompt.                       *)
(* A candidate task is either not a JSON object, or an object whose        *)
(* fields tool_name / id / order may each be absent.                       *)
(***************************************************************************)
NoField == "<absent>"
\* a tool_name that is a JSON array or object: it cannot be looked up in a dict
Unhashable == "<unhashable>"
ModelToolNames == {"WeatherTool", "ChatTool", "FooTool", NoField, Unhashable}
ModelIds == {"task_2", NoField}
\* an "order" the model gave as a JSON string; parse_intent copies it as is
StrOrder == -1
ModelOrders == {0, 1, 2, StrOrder}       \* 0 stands for "no order field"

Candidates ==
    {[is_dict |-> FALSE, tool_name |-> NoField, id |-> NoField, order |-> 0]}
    \cup [is_dict : {TRUE}, tool_name : ModelToolNames, id : ModelIds, order : ModelOrders]

RECURSIVE SeqsUpTo(_, _)
SeqsUpTo(S, n) ==
    IF n = 0 THEN {<<>>}
    ELSE LET shorter == SeqsUpTo(S, n - 1)
         IN shorter \cup {Append(s, x) : s \in {t \in shorter : Len(t) = n - 1}, x \in S}

\* what the intent model call gives:
\*   call_fails    llm.invoke raises
\*   not_json      the cleaned content is not JSON (json.loads raises)
\*   not_object    JSON, but not an object (result.get raises AttributeError)
\*   not_iterable  an object whose "tasks" is null or a number
\*   plan          an object whose "tasks" is a list (absent: the empty list)
ResponseShapes == {"call_fails", "not_json", "not_object", "not_iterable", "plan"}

Responses ==
    {[shape |-> sh, tasks |-> <<>>] : sh \in ResponseShapes \ {"plan"}}
    \cup {[shape |-> "plan", tasks |-> s] : s \in SeqsUpTo(Candidates, MaxTasks)}

(***************************************************************************)
(* ToolIntentParser.parse_intent                                           *)
(***************************************************************************)
\* f"task_{len(valid_tasks) + 1}"
DefaultTaskId(n) == "task_" \o ToString(n)

\* the registry lookup is forgotten
IsValidCandidate_AnyDict(c) == c.is_dict

\* the filter of one candidate: isinstance(task, dict) and tool_name in self.tools
IsValidCandidate(c) == c.is_dict /\ c.tool_name \in Tools

\* the loop over result["tasks"]; pos is a ghost field: the position of the
\* task in the returned list
RECURSIVE ValidTasks(_, _)
ValidTasks(cands, valid_tasks) ==
    IF cands = <<>> THEN valid_tasks
    ELSE LET task == Head(cands)
             n == Len(valid_tasks) + 1
         IN IF ~IsValidCandidate(task)
            THEN ValidTasks(Tail(cands), valid_tasks)
            ELSE ValidTasks(Tail(cands),
                     Append(valid_tasks,
                        [id |-> IF task.id = NoField THEN DefaultTaskId(n) ELSE task.id,
                         tool_name |-> task.tool_name,
                         order |-> IF task.order = 0 THEN n ELSE task.order,
                         pos |-> n]))

\* answers that are a list of objects naming registered tools, without id
\* and order
PlainCandidates == [is_dict : {TRUE}, tool_name : Tools, id : {NoField}, order : {0}]
PlainResponses ==
    {[shape |-> "plan", tasks |-> s] : s \in SeqsUpTo(PlainCandidates, MaxTasks)}

\* the exception raised inside the try of parse_intent, "none" if the body
\* reaches its return: llm.invoke (line 186), json.loads (line 194),
\* result.get (line 198), the for over a non-iterable (line 198) and the
\* dict lookup of an unhashable tool_name (line 203), met only if no earlier
\* statement raised
RECURSIVE LoopRaises(_)
LoopRaises(cands) ==
    IF cands = <<>> THEN FALSE
    ELSE IF Head(cands).is_dict /\ Head(cands).tool_name = Unhashable THEN TRUE
    ELSE LoopRaises(Tail(cands))

BodyException(resp) ==
    CASE resp.shape = "call_fails" -> "Exception"
      [] resp.shape = "not_json" -> "JSONDecodeError"
      [] resp.shape = "not_object" -> "AttributeError"
      [] resp.shape = "not_iterable" -> "TypeError"
      [] OTHER -> IF LoopRaises(resp.tasks) THEN "TypeError" ELSE "none"

\* only the JSON error is handled
CaughtByParseIntent_JsonOnly(exc) == exc = "JSONDecodeError"

\* line 229: "except Exception" handles every exception the body raises
CaughtByParseIntent(exc) == TRUE

\* the exception that leaves parse_intent, "none" if it returns
EscapesParseIntent(resp) ==
    IF BodyException(resp) # "none" /\ ~CaughtByParseIntent(BodyException(resp))
    THEN BodyException(resp) ELSE "none"

\* returns the "tasks" of the plan; an exception of the body ends in the
\* except branch, which returns {"tasks": []}
parse_intent(resp) ==
    IF BodyException(resp) # "none" THEN <<>>
    ELSE ValidTasks(resp.tasks, <<>>)

(***************************************************************************)
(* serial_execute_tools: tasks.sort(key=lambda x: x.get("order", 1))       *)
(* list.sort is stable: insertion after every element with order <= ours.  *)
(***************************************************************************)
RECURSIVE InsertByOrder(_, _)
InsertByOrder(t, s) ==
    IF s = <<>> THEN <<t>>
    ELSE IF Head(s).order <= t.order
         THEN <<Head(s)>> \o InsertByOrder(t, Tail(s))
         ELSE <<t>> \o s

\* tasks.sort(key=lambda x: x.get("order", 1)) (line 748) compares the keys:
\* a str and an int cannot be ordered, list.sort raises TypeError
SortRaises(s) ==
    \E j, k \in 1..Len(s) : (s[j].order = StrOrder) # (s[k].order = StrOrder)

\* the sort is forgotten
SortByOrder_Unsorted(s) == s

RECURSIVE SortByOrder(_)
SortByOrder(s) ==
    IF s = <<>> THEN <<>>
    ELSE InsertByOrder(s[Len(s)], SortByOrder(SubSeq(s, 1, Len(s) - 1)))

(***************************************************************************)
(* Python dict assignment d[k] = v on an insertion-ordered dict            *)
(***************************************************************************)
DictHas(d, k) == \E j \in 1..Len(d) : d[j].task_id = k

DictSet(d, k, v) ==
    IF DictHas(d, k)
    THEN [j \in 1..Len(d) |-> IF d[j].task_id = k THEN v ELSE d[j]]
    ELSE Append(d, v)

\* _build_tool_context lines 534-541: the history handed to the optimizer,
\* one entry per key of context, in the dict's order
build_tool_context(ctx) ==
    [j \in 1..Len(ctx) |->
        [task_id |-> ctx[j].task_id, tool_name |-> ctx[j].tool_name,
         result |-> ctx[j].result, pos |-> ctx[j].pos]]

\* no answer is being parsed
NoResponse == [shape |-> "not_json", tasks |-> <<>>]

\* the check of the plan is forgotten
PlanIsEmpty_Never(plan) == FALSE

\* execute_tools: "if not intent_result.get('tasks')"
PlanIsEmpty(plan) == Len(plan) = 0

VARIABLES
    verbose,          \* ToolExecutor.verbose
    response,         \* the model's answer parse_intent is working on
    parse_exc,        \* the exception that left parse_intent, or "none" (ghost)
    epc,              \* position of execute_tools / serial_execute_tools
    intent_result,    \* tasks of the plan returned by parse_intent
    tasks,            \* the list serial_execute_tools iterates (after sort)
    i,                \* index of the for loop over tasks (1-based)
    tpc,              \* position of _execute_single_tool for task i
    current_retry,    \* current_retry of _execute_single_tool
    iter,             \* passes of its while loop begun for task i (ghost)
    runCalls,         \* invocations of tool.run() for task i (ghost)
    noneCalls,        \* invocations of run() for task i that returned None (ghost)
    allRaised,        \* every invocation of run() for task i raised (ghost)
    opt_retry,        \* current_retry of optimize_parameters
    optimized_result, \* "none" | "valid" | "empty"
    optCalled,        \* the parameter model was called for this request (ghost)
    status,           \* per task of tasks: "pending" | "running" | "ok" | "failed"
    invoked,          \* indexes of tasks whose tool.run() was invoked (ghost)
    context,          \* context dict of serial_execute_tools
    tools_result,     \* tools_result dict of serial_execute_tools
    events            \* error / aggregate events yielded by execute_tools

evars == <<verbose, response, parse_exc, epc, intent_result, tasks, i, tpc, current_retry, iter,
           runCalls, noneCalls, allRaised, opt_retry, optimized_result, optCalled,
           status, invoked, context, tools_result, events>>

EInit ==
    /\ verbose \in BOOLEAN
    /\ response = NoResponse
    /\ parse_exc = "none"
    /\ epc = "start"
    /\ intent_result = <<>>
    /\ tasks = <<>>
    /\ i = 0
    /\ tpc = "idle"
    /\ current_retry = 0
    /\ iter = 0
    /\ runCalls = 0
    /\ noneCalls = 0
    /\ allRaised = TRUE
    /\ opt_retry = 0
    /\ optimized_result = "none"
    /\ optCalled = FALSE
    /\ status = <<>>
    /\ invoked = {}
    /\ context = <<>>
    /\ tools_result = <<>>
    /\ events = <<>>

(***************************************************************************)
(* Admission control: ResourceManager, the task queue and its dispatcher   *)
(***************************************************************************)
\* the asyncio task that _process_task_queue creates for _handle_single_task
H == 0
\* asyncio tasks that call chat_ui_process themselves
DirectReqs == 1..NumDirect
\* asyncio tasks that call MasterAgent.process; the dict such a call puts on
\* the queue carries the same number
ProcReqs == {100 + k : k \in 1..NumProc}
\* dicts of chat_ui_process keyword arguments put on the queue
QueuedReqs == {200 + k : k \in 1..NumQueued}
AsyncTasks == DirectReqs \cup ProcReqs \cup {H}
Items == ProcReqs \cup QueuedReqs
NoItem == -1

\* what psutil reports when SystemMonitor.get_current_load samples the host;
\* readable = FALSE: psutil raises
LoadSamples ==
    {[readable |-> TRUE, cpu |-> 80, mem |-> 85, disk |-> 90],
     [readable |-> TRUE, cpu |-> 81, mem |-> 85, disk |-> 90],
     [readable |-> TRUE, cpu |-> 80, mem |-> 86, disk |-> 90],
     [readable |-> TRUE, cpu |-> 80, mem |-> 85, disk |-> 91],
     [readable |-> FALSE, cpu |-> 0, mem |-> 0, disk |-> 0]}

\* SystemMonitor.is_system_overloaded
is_system_overloaded(l) ==
    IF ~l.readable THEN TRUE
    ELSE \/ l.cpu > cpu_threshold
         \/ l.mem > memory_threshold
         \/ l.disk > disk_threshold

\* the semaphore is consulted before the load
AcquireOutcome_SemFirst(l, s) ==
    IF s <= 0 THEN "wait"
    ELSE IF is_system_overloaded(l) THEN "refused" ELSE "acquired"

\* the slot is taken without waiting for a free one
AcquireOutcome_NoWait(l, s) ==
    IF is_system_overloaded(l) THEN "refused" ELSE "acquired"

\* ResourceManager.acquire up to its first suspension, with s free slots:
\* refusal, a slot taken at once, or a wait on the semaphore
AcquireOutcome(l, s) ==
    IF is_system_overloaded(l) THEN "refused"
    ELSE IF s > 0 THEN "acquired" ELSE "wait"

\* the load is tested after a slot was taken, and the slot is kept
RefusedAcquire_TakesSlot(s, a) == [sem |-> s - 1, active |-> a]

\* ResourceManager.acquire lines 348-350: the free slots and the active set
\* that a call returning False leaves behind, given those it found
RefusedAcquire(s, a) == [sem |-> s, active |-> a]

\* the refused request is put back at the head of the queue
RequeueOnRefusal_Front(q, item) == <<item>> \o q

\* the refused request is forgotten
RequeueOnRefusal_Drop(q, item) == q

\* _handle_single_task line 420: await self.task_queue.put(task_data)
RequeueOnRefusal(q, item) == Append(q, item)

\* an early return leaves the try without releasing
SlotsReleased_NotOnEarlyReturn(exit) == IF exit = "early_return" THEN 0 ELSE 1

\* slots given back by the finally of chat_ui_process (line 808) and of
\* process (line 497) when the try is left by normal completion, a return,
\* an exception or a cancellation
SlotsReleased(exit) == 1

\* chat_ui_process(**task_data) accepts the dict: the dict put by process()
\* has the keys type / input / future and makes the call raise TypeError
WellFormed(item) == item \in QueuedReqs

VARIABLES
    max_concurrent,   \* config.MAX_CONCURRENT
    overloaded,       \* what is_system_overloaded() told the latest acquire()
    sem,              \* ResourceManager.semaphore._value
    active_tasks,     \* ResourceManager.active_tasks
    pc,               \* position of every asyncio task
    task_queue,       \* MasterAgent.task_queue
    cur,              \* task_data of the running _handle_single_task
    dpc,              \* position of _process_task_queue
    put,              \* items put on the queue by their producer (ghost)
    admitted          \* items whose handler got True from acquire (ghost)

avars == <<max_concurrent, overloaded, sem, active_tasks, pc, task_queue,
           cur, dpc, put, admitted>>

\* state of one call of ParameterOptimizer.optimize_parameters
VARIABLES
    o_desc,       \* tool_description of the tool
    o_pc,         \* position of optimize_parameters
    o_retry,      \* its current_retry
    o_calls,      \* calls of self.llm.invoke of this call (ghost)
    o_precall,    \* passes that failed before the model call (ghost)
    o_validated,  \* the latest result was a validated answer
    o_results     \* contents of the "result" events yielded so far

ovars == <<o_desc, o_pc, o_retry, o_calls, o_precall, o_validated, o_results>>

\* state of concurrently running plans and the module-level globals
VARIABLES
    pl_pc,        \* position of serial_execute_tools of each plan
    pl_i,         \* its for-loop index (1-based)
    pl_context,   \* its local dict context
    pl_result,    \* its local dict tools_result
    pl_read,      \* plan that wrote the global task_id it last read (ghost)
    g_task_id,    \* module global task_id, tagged with the plan that wrote it
    g_link_text   \* plan that last wrote the module global link_text

pvars == <<pl_pc, pl_i, pl_context, pl_result, pl_read, g_task_id, g_link_text>>

\* state of MasterAgent.chat_ui_process as the consumer of execute_tools
VARIABLES
    agent_status, \* MasterAgent.status
    cui_out       \* events chat_ui_process yielded to its caller

cvars == <<agent_status, cui_out>>

\* MasterAgent.__init__ line 392 (st = "idle"), chat_ui_process line 607
\* (st = "running")
CInit(st) ==
    /\ agent_status = st
    /\ cui_out = <<>>

\* ResourceManager.__init__ and MasterAgent.__init__ with MAX_CONCURRENT = m
AInit(m) ==
    /\ max_concurrent = m
    /\ overloaded = FALSE
    /\ sem = m
    /\ active_tasks = {}
    /\ pc = [t \in AsyncTasks |->
               IF t = H THEN "h_idle"
               ELSE IF t \in DirectReqs THEN "cui_enter" ELSE "p_enter"]
    /\ task_queue = <<>>
    /\ cur = NoItem
    /\ dpc = "get"
    /\ put = {}
    /\ admitted = {}

(***************************************************************************)
(* Concurrent plans: serial_execute_tools of several requests on one event *)
(* loop, sharing the module-level globals task_id and link_text            *)
(***************************************************************************)
Plans == 1..NumPlans
\* id of the k-th task of a plan: parse_intent's default, the same in all plans
TaskIdOf(p, k) == DefaultTaskId(k)
\* the globals before their first assignment
NoPlan == 0
NoGlobal == [id |-> NoField, plan |-> NoPlan]

\* serial_execute_tools lines 792-793, 806: the key under which a result is
\* stored is the global task_id as it is before line 792 assigns it
StoreKey_Stale(own, global) == IF global = NoGlobal THEN own ELSE global

\* serial_execute_tools lines 792-793, 806: the key is read from the global
\* task_id right after line 792 assigned it, with no await in between
StoreKey(own, global) == own

\* d[key] = entry for the dicts context and tools_result
DictPut(dict, e) == {x \in dict : x.key # e.key} \cup {e}

\* nothing has run: the globals are unassigned
PInit ==
    /\ pl_pc = [p \in Plans |-> "start"]
    /\ pl_i = [p \in Plans |-> 0]
    /\ pl_context = [p \in Plans |-> {}]
    /\ pl_result = [p \in Plans |-> {}]
    /\ pl_read = [p \in Plans |-> NoPlan]
    /\ g_task_id = NoGlobal
    /\ g_link_text = NoPlan

\* the for loop of plan p goes to its next task, or leaves the loop
PlanAdvance(p) ==
    /\ pl_i' = [pl_i EXCEPT ![p] = pl_i[p] + 1]
    /\ pl_pc' = [pl_pc EXCEPT ![p] = IF pl_i[p] + 1 > PlanLen THEN "aggregate" ELSE "task"]

\* serial_execute_tools lines 733-775: up to the first suspension inside
\* _execute_single_tool of the first task
PlanStart(p) ==
    /\ pl_pc[p] = "start"
    /\ pl_i' = [pl_i EXCEPT ![p] = 1]
    /\ pl_pc' = [pl_pc EXCEPT ![p] = "task"]
    /\ UNCHANGED <<pl_context, pl_result, pl_read, g_task_id, g_link_text>>
    /\ UNCHANGED <<evars, avars, ovars, cvars>>

\* serial_execute_tools lines 783-813: the tool of the current task of plan p
\* completed; the result is stored through the global task_id. No await or
\* yield lies between line 790 and the next loop iteration.
PlanTaskComplete(p) ==
    /\ pl_pc[p] = "task"
    /\ \E links \in BOOLEAN :
         LET own == [id |-> TaskIdOf(p, pl_i[p]), plan |-> p]
             key == StoreKey(own, g_task_id)
             entry == [key |-> key.id, keyplan |-> key.plan, owner |-> p, pos |-> pl_i[p]]
         IN /\ g_task_id' = own
            /\ pl_context' = [pl_context EXCEPT ![p] = DictPut(pl_context[p], entry)]
            /\ g_link_text' = IF links THEN p ELSE g_link_text
            /\ pl_result' = [pl_result EXCEPT ![p] = DictPut(pl_result[p], entry)]
            /\ pl_read' = [pl_read EXCEPT ![p] = key.plan]
    /\ PlanAdvance(p)
    /\ UNCHANGED <<evars, avars, ovars, cvars>>

\* serial_execute_tools lines 815-817: the current task of plan p failed
PlanTaskFails(p) ==
    /\ pl_pc[p] = "task"
    /\ PlanAdvance(p)
    /\ UNCHANGED <<pl_context, pl_result, pl_read, g_task_id, g_link_text>>
    /\ UNCHANGED <<evars, avars, ovars, cvars>>

\* serial_execute_tools lines 819-826: the aggregate of plan p
PlanAggregate(p) ==
    /\ pl_pc[p] = "aggregate"
    /\ pl_pc' = [pl_pc EXCEPT ![p] = "finished"]
    /\ UNCHANGED <<pl_i, pl_context, pl_result, pl_read, g_task_id, g_link_text>>
    /\ UNCHANGED <<evars, avars, ovars, cvars>>

PNext ==
    \/ \E p \in Plans : PlanStart(p)
    \/ \E p \in Plans : PlanTaskComplete(p)
    \/ \E p \in Plans : PlanTaskFails(p)
    \/ \E p \in Plans : PlanAggregate(p)

(***************************************************************************)
(* The parameter optimizer: optimize_parameters and _validate_parameters   *)
(***************************************************************************)
\* the tool whose parameters are optimized and the names of its parameters;
\* "extra" is a parameter the model may supply that the schema does not know
OptTool == "WeatherTool"
SchemaParams == {"language", "mode"}
ParamNames == SchemaParams \cup {"extra"}
Absent == "<absent>"
\* the names an enum allows, and the values the model may give a parameter
EnumNames == {"auto", "zh"}
ParamValues == {"auto", "fr"}

\* the "enum" entry of a parameter's schema: absent, a list of plain values,
\* or a list of {name, description} objects
EnumKinds == {"none", "list", "dict_list"}
EnumList(kind) ==
    IF kind = "none" THEN {}
    ELSE {[is_dict |-> kind = "dict_list", name |-> n] : n \in EnumNames}

\* tool_description["parameters"]: required flag and enum of each parameter
ParamInfos == [required : BOOLEAN, enum : EnumKinds]
ToolDescriptions == [SchemaParams -> ParamInfos]
DefaultDescription == [p \in SchemaParams |-> [required |-> FALSE, enum |-> "none"]]

\* a parameter set: the value of each supplied parameter
ParamSets == [ParamNames -> ParamValues \cup {Absent}]
EmptyParams == [p \in ParamNames |-> Absent]
Supplied(parameters) == {p \in ParamNames : parameters[p] # Absent}

\* _validate_parameters lines 451-462: every required parameter is a key
RequiredPresent_Skip(parameters, desc) == TRUE

\* _validate_parameters lines 451-462
RequiredPresent(parameters, desc) ==
    \A p \in SchemaParams : desc[p].required => parameters[p] # Absent

\* _validate_parameters lines 474-476: the enum is a list of dicts only
AllDicts(enum_values) == \A x \in enum_values : x.is_dict

\* _validate_parameters lines 477-489: membership of one supplied value
EnumAccepts(param_value, kind) ==
    IF kind = "none" THEN TRUE
    ELSE IF AllDicts(EnumList(kind))
         THEN param_value \in {item.name : item \in EnumList(kind)}
         ELSE [is_dict |-> FALSE, name |-> param_value] \in EnumList(kind)

\* _validate_parameters lines 449-495
validate_parameters(parameters, desc) ==
    /\ RequiredPresent(parameters, desc)
    /\ \A p \in Supplied(parameters) :
          p \in SchemaParams => EnumAccepts(parameters[p], desc[p].enum)

\* one pass of the while loop of optimize_parameters ends in one of:
\*   precall_fails  json.dumps / format_messages raises (lines 316-329)
\*   call_fails     llm.invoke raises (line 331)
\*   not_json       json.loads fails twice (lines 333-337)
\*   no_tool_key    JSON without the key tool_name (line 351)
\*   params         JSON with a parameter set under the key tool_name
AnswerShapes == {"precall_fails", "call_fails", "not_json", "no_tool_key", "params"}
OptAnswers ==
    {[shape |-> sh, parameters |-> EmptyParams] : sh \in AnswerShapes \ {"params"}}
    \cup {[shape |-> "params", parameters |-> ps] : ps \in ParamSets}

\* optimize_parameters lines 351-358: the answer is yielded as the result
AnswerValidates(ans, desc) ==
    ans.shape = "params" /\ validate_parameters(ans.parameters, desc)

\* optimize_parameters line 358: "return" after the validated result
ReturnsAfterResult_Never(validated) == ~validated

\* optimize_parameters lines 358 and 383
ReturnsAfterResult(validated) == TRUE

\* optimize_parameters line 372: "if current_retry >= max_retries"
OptExhausted(cr) == cr >= opt_max_retries

\* optimize_parameters lines 274-275 for the description desc
OInit(descs) ==
    /\ o_desc \in descs
    /\ o_pc = "loop"
    /\ o_retry = 0
    /\ o_calls = 0
    /\ o_precall = 0
    /\ o_validated = FALSE
    /\ o_results = <<>>

\* optimize_parameters lines 362-386: the except branch of one pass
OptFailure ==
    /\ o_retry' = o_retry + 1
    /\ IF OptExhausted(o_retry + 1)
       THEN /\ o_results' = Append(o_results, EmptyParams)
            /\ o_validated' = FALSE
            /\ o_pc' = "yielded"
       ELSE /\ o_pc' = "loop"
            /\ UNCHANGED <<o_results, o_validated>>

\* optimize_parameters lines 277-386: one pass of the while loop, up to the
\* yield of a result or the end of the except branch
OptAttempt ==
    /\ o_pc = "loop"
    /\ o_retry < opt_max_retries
    /\ \E ans \in OptAnswers :
         /\ o_precall' = IF ans.shape = "precall_fails" THEN o_precall + 1 ELSE o_precall
         /\ o_calls' = IF ans.shape = "precall_fails" THEN o_calls ELSE o_calls + 1
         /\ IF AnswerValidates(ans, o_desc)
            THEN /\ o_results' = Append(o_results, ans.parameters)
                 /\ o_validated' = TRUE
                 /\ o_pc' = "yielded"
                 /\ UNCHANGED o_retry
            ELSE OptFailure
    /\ UNCHANGED o_desc
    /\ UNCHANGED <<evars, avars, pvars, cvars>>

\* the consumer's async for resumes the generator after a result: it returns
\* (lines 358, 383; the finally of line 386 only logs)
OptResume ==
    /\ o_pc = "yielded"
    /\ IF ReturnsAfterResult(o_validated)
       THEN /\ o_pc' = "done"
            /\ UNCHANGED <<o_retry, o_results, o_validated>>
       ELSE OptFailure
    /\ UNCHANGED <<o_desc, o_calls, o_precall>>
    /\ UNCHANGED <<evars, avars, pvars, cvars>>

ONext ==
    \/ OptAttempt
    \/ OptResume

(***************************************************************************)
(* The executor: execute_tools, serial_execute_tools, _execute_single_tool *)
(***************************************************************************)
\* _execute_single_tool line 636: "if current_retry >= max_retries"
RetryExhausted(cr) == cr >= max_retries

\* _execute_single_tool line 587 / 602: "if current_retry < max_retries - 1"
MayRetryEmpty(cr) == cr < max_retries - 1

\* a None result that is retried leaves current_retry as it is
AfterEmptyResult_Free(cr) == cr

\* _execute_single_tool line 595: "current_retry += 1" before "continue"
AfterEmptyResult(cr) == cr + 1

\* _execute_single_tool line 578: the call of run() sits inside "if verbose:"
ToolIsRun(v) == v

\* outcome of one call of tool.run() followed by format_result:
\*   raise        run() raises
\*   none         run() returns None
\*   ok           run() returns a value and the formatter succeeds
\*   ok_fmt_error run() returns a value, the formatter raises inside
\*                format_result, which returns the error text as the result
ToolOutcomes == {"raise", "none", "ok", "ok_fmt_error"}

\* outcome of one model call of optimize_parameters: a validated parameter
\* set, or anything else (no JSON, failed validation, failing model call)
OptimizerOutcomes == {"valid", "invalid"}

NoToolEvent == [type |-> "error", content |-> "no suitable tool", result |-> <<>>]
\* execute_tools lines 690-696: the event of its except branch
ExecFailedEvent == [type |-> "error", content |-> "execution failed", result |-> <<>>]
SerialNoToolEvent == [type |-> "error_dict", content |-> "no suitable tool", result |-> <<>>]
AggregateEvent(res) == [type |-> "aggregate", content |-> "success", result |-> res]
AbortEvent == [type |-> "error_dict", content |-> "execution failed", result |-> <<>>]
\* chat_ui_process lines 697-701 and 801-805
CuiErrorEvent == [type |-> "error", content |-> "processing failed"]
CompletionNotice == [type |-> "thinking_process", content |-> "processing complete"]

\* reset of the locals of _execute_single_tool when the for loop enters a task
EnterTask(k) ==
    /\ current_retry' = 0
    /\ iter' = 0
    /\ runCalls' = 0
    /\ noneCalls' = 0
    /\ allRaised' = TRUE
    /\ opt_retry' = 0
    /\ optimized_result' = "none"
    /\ IF k <= Len(tasks')
       THEN /\ status' = [j \in 1..Len(tasks') |->
                            IF j = k THEN "running"
                            ELSE IF j < k THEN status[j] ELSE "pending"]
            /\ tpc' = "loop"
       ELSE /\ status' = [j \in 1..Len(tasks') |-> status[j]]
            /\ tpc' = "idle"

\* execute_tools lines 656-677: the intent model call and its parsing
ParseIntentFrom(answers) ==
    /\ epc = "start"
    /\ \E resp \in answers :
         /\ response' = resp
         /\ parse_exc' = EscapesParseIntent(resp)
         /\ IF EscapesParseIntent(resp) = "none"
            THEN /\ intent_result' = parse_intent(resp)
                 /\ epc' = "parsed"
                 /\ UNCHANGED events
            ELSE /\ UNCHANGED intent_result
                 /\ epc' = "done"
                 /\ events' = Append(events, ExecFailedEvent)
    /\ UNCHANGED <<verbose, tasks, i, tpc, current_retry, iter, runCalls, noneCalls, allRaised,
                   opt_retry, optimized_result, optCalled, status, invoked,
                   context, tools_result>>
    /\ UNCHANGED <<avars, ovars, pvars, cvars>>

ParseIntent == ParseIntentFrom(Responses)

\* the same call when the model names registered tools only and leaves id
\* and order to parse_intent
ParseIntentPlain == ParseIntentFrom(PlainResponses)

\* execute_tools lines 679-685: error event and return
NoToolError ==
    /\ epc = "parsed"
    /\ PlanIsEmpty(intent_result)
    /\ events' = Append(events, NoToolEvent)
    /\ epc' = "done"
    /\ response' = NoResponse
    /\ UNCHANGED <<verbose, parse_exc, intent_result, tasks, i, tpc, current_retry, iter, runCalls, noneCalls,
                   allRaised, opt_retry, optimized_result, optCalled, status, invoked,
                   context, tools_result>>
    /\ UNCHANGED <<avars, ovars, pvars, cvars>>

\* execute_tools line 687 and serial_execute_tools lines 735-755:
\* the sort is in place, so intent_result["tasks"] is sorted too
SerialStart ==
    /\ epc = "parsed"
    /\ ~PlanIsEmpty(intent_result)
    /\ IF SortRaises(intent_result)
       THEN \* line 748 raises inside the outer try: lines 828-830
            /\ events' = Append(events, AbortEvent)
            /\ epc' = "done"
            /\ UNCHANGED <<intent_result, tasks, i, tpc, current_retry, iter, runCalls, noneCalls,
                           allRaised, opt_retry, optimized_result, status, context,
                           tools_result>>
       ELSE /\ tasks' = SortByOrder(intent_result)
            /\ intent_result' = tasks'
            /\ events' = IF Len(intent_result) = 0 THEN Append(events, SerialNoToolEvent) ELSE events
            /\ context' = <<>>
            /\ tools_result' = <<>>
            /\ i' = 1
            /\ epc' = "serial"
            /\ EnterTask(1)
    /\ response' = NoResponse
    /\ UNCHANGED <<verbose, parse_exc, optCalled, invoked>>
    /\ UNCHANGED <<avars, ovars, pvars, cvars>>

\* _execute_single_tool lines 553-567: one more pass of the while loop
BeginAttempt ==
    /\ epc = "serial"
    /\ tpc = "loop"
    /\ current_retry < max_retries
    /\ iter' = IF iter < MaxIter THEN iter + 1 ELSE iter
    /\ opt_retry' = 0
    /\ optimized_result' = "none"
    /\ tpc' = "optimizing"
    /\ UNCHANGED <<verbose, response, parse_exc, epc, intent_result, tasks, i, current_retry, runCalls, noneCalls,
                   allRaised, optCalled, status, invoked, context, tools_result, events>>
    /\ UNCHANGED <<avars, ovars, pvars, cvars>>

\* optimize_parameters lines 277-393: one model call and its validation
OptimizerCall ==
    /\ epc = "serial"
    /\ tpc = "optimizing"
    /\ optimized_result = "none"
    /\ optCalled' = TRUE
    /\ \E o \in OptimizerOutcomes :
         IF o = "valid"
         THEN /\ optimized_result' = "valid"
              /\ UNCHANGED opt_retry
         ELSE /\ opt_retry' = opt_retry + 1
              /\ optimized_result' = IF opt_retry + 1 >= opt_max_retries THEN "empty" ELSE "none"
    /\ UNCHANGED <<verbose, response, parse_exc, epc, intent_result, tasks, i, tpc, current_retry, iter,
                   runCalls, noneCalls, allRaised, status, invoked, context, tools_result, events>>
    /\ UNCHANGED <<avars, ovars, pvars, cvars>>

\* _execute_single_tool lines 576-578 with verbose = False: the body of
\* "if verbose:" is skipped and the while loop goes round
SkipTool ==
    /\ epc = "serial"
    /\ tpc = "optimizing"
    /\ optimized_result # "none"
    /\ ~ToolIsRun(verbose)
    /\ tpc' = "loop"
    /\ UNCHANGED <<verbose, response, parse_exc, epc, intent_result, tasks, i, current_retry, iter, runCalls, noneCalls,
                   allRaised, opt_retry, optimized_result, optCalled, status, invoked,
                   context, tools_result, events>>
    /\ UNCHANGED <<avars, ovars, pvars, cvars>>

\* the entry stored for a completed task (lines 792-810)
ContextEntry(task, formatted) ==
    [task_id |-> task.id, tool_name |-> task.tool_name, result |-> formatted, pos |-> task.pos]

\* _execute_single_tool lines 583-650 and, on tool_complete,
\* serial_execute_tools lines 783-810
RunTool ==
    /\ epc = "serial"
    /\ tpc = "optimizing"
    /\ optimized_result # "none"
    /\ ToolIsRun(verbose)
    /\ runCalls' = runCalls + 1
    /\ invoked' = invoked \cup {i}
    /\ \E out \in ToolOutcomes :
         /\ allRaised' = (allRaised /\ out = "raise")
         /\ noneCalls' = IF out = "none" THEN noneCalls + 1 ELSE noneCalls
         /\ CASE out = "raise" ->
                   /\ current_retry' = current_retry + 1
                   /\ tpc' = IF RetryExhausted(current_retry + 1) THEN "raised" ELSE "loop"
                   /\ UNCHANGED <<status, context, tools_result>>
              [] out = "none" ->
                   IF MayRetryEmpty(current_retry)
                   THEN /\ current_retry' = AfterEmptyResult(current_retry)
                        /\ tpc' = "loop"
                        /\ UNCHANGED <<status, context, tools_result>>
                   ELSE /\ current_retry' = current_retry + 1
                        /\ tpc' = IF RetryExhausted(current_retry + 1) THEN "raised" ELSE "loop"
                        /\ UNCHANGED <<status, context, tools_result>>
              [] out \in {"ok", "ok_fmt_error"} ->
                   /\ status' = [status EXCEPT ![i] = "ok"]
                   /\ context' = DictSet(context, tasks[i].id,
                                     ContextEntry(tasks[i], IF out = "ok" THEN "formatted" ELSE "format_error"))
                   /\ tools_result' = DictSet(tools_result, tasks[i].id,
                                     ContextEntry(tasks[i], IF out = "ok" THEN "formatted" ELSE "format_error"))
                   /\ tpc' = "ended"
                   /\ UNCHANGED current_retry
    /\ UNCHANGED <<verbose, response, parse_exc, epc, intent_result, tasks, i, iter, opt_retry,
                   optimized_result, optCalled, events>>
    /\ UNCHANGED <<avars, ovars, pvars, cvars>>

\* the per-task try/except is missing: the exception reaches the outer
\* except of serial_execute_tools (lines 828-830), which ends the plan
CatchTaskFailure_Abort ==
    /\ epc = "serial"
    /\ tpc = "raised"
    /\ status' = [status EXCEPT ![i] = "failed"]
    /\ events' = Append(events, AbortEvent)
    /\ epc' = "done"
    /\ UNCHANGED <<verbose, response, parse_exc, intent_result, tasks, i, tpc, current_retry, iter,
                   runCalls, noneCalls, allRaised, opt_retry, optimized_result, optCalled, invoked,
                   context, tools_result>>
    /\ UNCHANGED <<avars, ovars, pvars, cvars>>

\* serial_execute_tools lines 815-817: the exception that left
\* _execute_single_tool is logged and the for loop continues
CatchTaskFailure ==
    /\ epc = "serial"
    /\ tpc = "raised"
    /\ status' = [status EXCEPT ![i] = "failed"]
    /\ tpc' = "ended"
    /\ UNCHANGED <<verbose, response, parse_exc, epc, intent_result, tasks, i, current_retry, iter, runCalls, noneCalls,
                   allRaised, opt_retry, optimized_result, optCalled, invoked,
                   context, tools_result, events>>
    /\ UNCHANGED <<avars, ovars, pvars, cvars>>

\* chat_ui_process lines 690-702 as the consumer of execute_tools: the event
\* _execute_single_tool yields before its terminal raise (lines 637-642) has
\* the key "error"; chat_ui_process yields an error and returns, so the
\* suspended generators are never resumed
CuiErrorReturn ==
    /\ epc = "serial"
    /\ tpc = "raised"
    /\ status' = [status EXCEPT ![i] = "failed"]
    /\ epc' = "abandoned"
    /\ cui_out' = Append(cui_out, CuiErrorEvent)
    /\ UNCHANGED agent_status
    /\ UNCHANGED <<verbose, response, parse_exc, intent_result, tasks, i, tpc, current_retry, iter,
                   runCalls, noneCalls, allRaised, opt_retry, optimized_result, optCalled, invoked,
                   context, tools_result, events>>
    /\ UNCHANGED <<avars, ovars, pvars>>

\* chat_ui_process lines 696-798 for one event of execute_tools that is not
\* left at line 702: the aggregate becomes a result event (lines 704-785),
\* an event with a "type" is passed on (lines 787-798)
Forwarded(ev) ==
    IF ev.type = "aggregate"
    THEN [type |-> "result", content |-> "final result"]
    ELSE [type |-> ev.type, content |-> ev.content]

RECURSIVE ForwardAll(_)
ForwardAll(evs) ==
    IF evs = <<>> THEN <<>> ELSE <<Forwarded(Head(evs))>> \o ForwardAll(Tail(evs))

\* chat_ui_process line 696: the key "error", not the value of "type"
HasErrorKey(ev) == ev.type = "error_dict"

\* chat_ui_process lines 690-805 once execute_tools has yielded its last
\* event: an event with the key "error" ends the request at line 702; else
\* the async for ends, line 800 sets SUCCESS and the notice is yielded
CuiFinish ==
    /\ epc = "done"
    /\ IF events # <<>> /\ HasErrorKey(events[Len(events)])
       THEN /\ cui_out' = Append(cui_out \o ForwardAll(SubSeq(events, 1, Len(events) - 1)),
                                 CuiErrorEvent)
            /\ epc' = "abandoned"
            /\ UNCHANGED agent_status
       ELSE /\ cui_out' = Append(cui_out \o ForwardAll(events), CompletionNotice)
            /\ agent_status' = "success"
            /\ epc' = "returned"
    /\ UNCHANGED <<verbose, response, parse_exc, intent_result, tasks, i, tpc, current_retry, iter,
                   runCalls, noneCalls, allRaised, opt_retry, optimized_result, optCalled, status,
                   invoked, context, tools_result, events>>
    /\ UNCHANGED <<avars, ovars, pvars>>

\* serial_execute_tools line 755: the for loop moves to the next task
NextTask ==
    /\ epc = "serial"
    /\ tpc = "ended"
    /\ i' = i + 1
    /\ UNCHANGED tasks
    /\ EnterTask(i + 1)
    /\ UNCHANGED <<verbose, response, parse_exc, epc, intent_result, optCalled, invoked,
                   context, tools_result, events>>
    /\ UNCHANGED <<avars, ovars, pvars, cvars>>

\* serial_execute_tools lines 819-826: the final aggregate
EmitAggregate ==
    /\ epc = "serial"
    /\ tpc = "idle"
    /\ i > Len(tasks)
    /\ events' = Append(events, AggregateEvent(tools_result))
    /\ epc' = "done"
    /\ UNCHANGED <<verbose, response, parse_exc, intent_result, tasks, i, tpc, current_retry, iter, runCalls, noneCalls,
                   allRaised, opt_retry, optimized_result, optCalled, status, invoked,
                   context, tools_result>>
    /\ UNCHANGED <<avars, ovars, pvars, cvars>>

ENext ==
    \/ ParseIntent
    \/ NoToolError
    \/ SerialStart
    \/ BeginAttempt
    \/ OptimizerCall
    \/ SkipTool
    \/ RunTool
    \/ CatchTaskFailure
    \/ NextTask
    \/ EmitAggregate

\* execute_tools for the plain answers of the intent model
ENextPlain ==
    \/ ParseIntentPlain
    \/ NoToolError
    \/ SerialStart
    \/ BeginAttempt
    \/ OptimizerCall
    \/ SkipTool
    \/ RunTool
    \/ CatchTaskFailure
    \/ NextTask
    \/ EmitAggregate

\* execute_tools consumed by MasterAgent.chat_ui_process (line 690)
ENextCui ==
    \/ ParseIntent
    \/ NoToolError
    \/ SerialStart
    \/ BeginAttempt
    \/ OptimizerCall
    \/ SkipTool
    \/ RunTool
    \/ CuiErrorReturn
    \/ NextTask
    \/ EmitAggregate
    \/ CuiFinish

(***************************************************************************)
(* Admission control: the actions                                          *)
(***************************************************************************)
\* chat_ui_process ends in task t, leaving s free slots and the active set a.
\* In the handler task the async for of _handle_single_task ends, its finally
\* releases the handler's slot (line 446), the handler returns and
\* _process_task_queue goes back to task_queue.get().
CuiReturn(t, oc, s, a) ==
    IF t = H
    THEN /\ sem' = s + 1
         /\ active_tasks' = a \ {H}
         /\ pc' = [pc EXCEPT ![H] = "h_idle"]
         /\ dpc' = "get"
         /\ cur' = NoItem
    ELSE /\ sem' = s
         /\ active_tasks' = a
         /\ pc' = [pc EXCEPT ![t] = oc]
         /\ UNCHANGED <<dpc, cur>>

\* requests of one entry point are interchangeable: they are numbered in the
\* order of their calls
EntersInTurn(t) ==
    /\ t \in DirectReqs => \A u \in DirectReqs : u < t => pc[u] # "cui_enter"
    /\ t \in ProcReqs => \A u \in ProcReqs : u < t => pc[u] # "p_enter"

\* chat_ui_process lines 587-604: the active-task check and acquire()
CuiAdmission(t) ==
    /\ pc[t] = "cui_enter"
    /\ EntersInTurn(t)
    /\ IF Cardinality(active_tasks) >= max_concurrent
       THEN /\ CuiReturn(t, "done", sem, active_tasks)
            /\ UNCHANGED overloaded
       ELSE \E l \in LoadSamples :
            /\ overloaded' = is_system_overloaded(l)
            /\ CASE AcquireOutcome(l, sem) = "refused" ->
                    CuiReturn(t, "done", RefusedAcquire(sem, active_tasks).sem,
                              RefusedAcquire(sem, active_tasks).active)
              [] AcquireOutcome(l, sem) = "acquired" ->
                    /\ sem' = sem - 1
                    /\ active_tasks' = active_tasks \cup {t}
                    /\ pc' = [pc EXCEPT ![t] = "cui_prepare"]
                    /\ UNCHANGED <<dpc, cur>>
              [] AcquireOutcome(l, sem) = "wait" ->
                    /\ pc' = [pc EXCEPT ![t] = "cui_semwait"]
                    /\ UNCHANGED <<sem, active_tasks, dpc, cur>>
    /\ UNCHANGED <<max_concurrent, task_queue, put, admitted>>
    /\ UNCHANGED <<evars, ovars, pvars, cvars>>

\* ResourceManager.acquire lines 352-358 for a task that waited on the
\* semaphore; process() then puts its dict on the queue (lines 469-480)
SemGrant(t) ==
    /\ pc[t] \in {"cui_semwait", "p_semwait", "h_semwait"}
    /\ sem > 0
    /\ sem' = sem - 1
    /\ active_tasks' = active_tasks \cup {t}
    /\ CASE pc[t] = "cui_semwait" ->
              /\ pc' = [pc EXCEPT ![t] = "cui_prepare"]
              /\ UNCHANGED <<task_queue, put, admitted>>
         [] pc[t] = "p_semwait" ->
              /\ pc' = [pc EXCEPT ![t] = "p_wait"]
              /\ task_queue' = Append(task_queue, t)
              /\ put' = put \cup {t}
              /\ UNCHANGED admitted
         [] pc[t] = "h_semwait" ->
              /\ pc' = [pc EXCEPT ![t] = "h_admitted"]
              /\ admitted' = admitted \cup {cur}
              /\ UNCHANGED <<task_queue, put>>
    /\ UNCHANGED <<max_concurrent, overloaded, cur, dpc>>
    /\ UNCHANGED <<evars, ovars, pvars, cvars>>

\* chat_ui_process lines 606-688: the preparation inside the try; it either
\* reaches execute_tools or raises, and then the finally releases (line 808)
CuiPrepare(t) ==
    /\ pc[t] = "cui_prepare"
    /\ \/ /\ pc' = [pc EXCEPT ![t] = "cui_exec"]
          /\ UNCHANGED <<sem, active_tasks, dpc, cur>>
       \/ CuiReturn(t, "done", sem + SlotsReleased("exception"), active_tasks \ {t})
    /\ UNCHANGED <<max_concurrent, overloaded, task_queue, put, admitted>>
    /\ UNCHANGED <<evars, ovars, pvars, cvars>>

\* chat_ui_process lines 690-808: the events of execute_tools are consumed to
\* the end, or an error event makes it return early, or an exception is
\* raised; the finally releases in each case
CuiExecute(t) ==
    /\ pc[t] = "cui_exec"
    /\ \E exit \in {"completed", "early_return", "exception"} :
          CuiReturn(t, "done", sem + SlotsReleased(exit), active_tasks \ {t})
    /\ UNCHANGED <<max_concurrent, overloaded, task_queue, put, admitted>>
    /\ UNCHANGED <<evars, ovars, pvars, cvars>>

\* MasterAgent.process lines 459-480
ProcAdmission(p) ==
    /\ pc[p] = "p_enter"
    /\ EntersInTurn(p)
    /\ IF Cardinality(active_tasks) >= process_busy_threshold
       THEN /\ pc' = [pc EXCEPT ![p] = "done"]
            /\ UNCHANGED <<overloaded, sem, active_tasks, task_queue, put>>
       ELSE \E l \in LoadSamples :
            /\ overloaded' = is_system_overloaded(l)
            /\ CASE AcquireOutcome(l, sem) = "refused" ->
                    /\ sem' = RefusedAcquire(sem, active_tasks).sem
                    /\ active_tasks' = RefusedAcquire(sem, active_tasks).active
                    /\ pc' = [pc EXCEPT ![p] = "done"]
                    /\ UNCHANGED <<task_queue, put>>
              [] AcquireOutcome(l, sem) = "acquired" ->
                    /\ sem' = sem - 1
                    /\ active_tasks' = active_tasks \cup {p}
                    /\ task_queue' = Append(task_queue, p)
                    /\ put' = put \cup {p}
                    /\ pc' = [pc EXCEPT ![p] = "p_wait"]
              [] AcquireOutcome(l, sem) = "wait" ->
                    /\ pc' = [pc EXCEPT ![p] = "p_semwait"]
                    /\ UNCHANGED <<sem, active_tasks, task_queue, put>>
    /\ UNCHANGED <<max_concurrent, cur, dpc, admitted>>
    /\ UNCHANGED <<evars, ovars, pvars, cvars>>

\* the asyncio task of a request is cancelled at a suspension point: while
\* it waits on the semaphore nothing is held; inside the try the finally
\* releases (chat_ui_process line 808, process line 497)
Cancel(t) ==
    /\ t \in DirectReqs \cup ProcReqs
    /\ pc[t] \in {"cui_semwait", "p_semwait", "cui_prepare", "cui_exec", "p_wait"}
    /\ IF pc[t] \in {"cui_semwait", "p_semwait"}
       THEN UNCHANGED <<sem, active_tasks>>
       ELSE /\ sem' = sem + SlotsReleased("cancelled")
            /\ active_tasks' = active_tasks \ {t}
    /\ pc' = [pc EXCEPT ![t] = "done"]
    /\ UNCHANGED <<max_concurrent, overloaded, task_queue, cur, dpc, put, admitted>>
    /\ UNCHANGED <<evars, ovars, pvars, cvars>>

\* a caller puts chat_ui_process keyword arguments on MasterAgent.task_queue
Enqueue(q) ==
    /\ q \in QueuedReqs \ put
    /\ \A r \in QueuedReqs : r < q => r \in put
    /\ task_queue' = Append(task_queue, q)
    /\ put' = put \cup {q}
    /\ UNCHANGED <<max_concurrent, overloaded, sem, active_tasks, pc, cur, dpc,
                   admitted>>
    /\ UNCHANGED <<evars, ovars, pvars, cvars>>

\* _process_task_queue lines 408-409
DispatchGet ==
    /\ dpc = "get"
    /\ task_queue # <<>>
    /\ cur' = Head(task_queue)
    /\ task_queue' = Tail(task_queue)
    /\ dpc' = "handling"
    /\ pc' = [pc EXCEPT ![H] = "h_start"]
    /\ UNCHANGED <<max_concurrent, overloaded, sem, active_tasks, put, admitted>>
    /\ UNCHANGED <<evars, ovars, pvars, cvars>>

\* _handle_single_task lines 418-422: acquire() and the requeue on refusal
HAdmission ==
    /\ pc[H] = "h_start"
    /\ \E l \in LoadSamples :
       /\ overloaded' = is_system_overloaded(l)
       /\ CASE AcquireOutcome(l, sem) = "refused" ->
              /\ sem' = RefusedAcquire(sem, active_tasks).sem
              /\ active_tasks' = RefusedAcquire(sem, active_tasks).active
              /\ task_queue' = RequeueOnRefusal(task_queue, cur)
              /\ pc' = [pc EXCEPT ![H] = "h_backoff"]
              /\ UNCHANGED admitted
         [] AcquireOutcome(l, sem) = "acquired" ->
              /\ sem' = sem - 1
              /\ active_tasks' = active_tasks \cup {H}
              /\ admitted' = admitted \cup {cur}
              /\ pc' = [pc EXCEPT ![H] = "h_admitted"]
              /\ UNCHANGED task_queue
         [] AcquireOutcome(l, sem) = "wait" ->
              /\ pc' = [pc EXCEPT ![H] = "h_semwait"]
              /\ UNCHANGED <<sem, active_tasks, admitted, task_queue>>
    /\ UNCHANGED <<max_concurrent, cur, dpc, put>>
    /\ UNCHANGED <<evars, ovars, pvars, cvars>>

\* _handle_single_task lines 421-422 and _process_task_queue lines 412-413:
\* the backoff sleep ends, the handler returns, the dispatcher loops
HBackoffEnd ==
    /\ pc[H] = "h_backoff"
    /\ pc' = [pc EXCEPT ![H] = "h_idle"]
    /\ dpc' = "get"
    /\ cur' = NoItem
    /\ UNCHANGED <<max_concurrent, overloaded, sem, active_tasks, task_queue, put,
                   admitted>>
    /\ UNCHANGED <<evars, ovars, pvars, cvars>>

\* _handle_single_task lines 424-447: chat_ui_process(**task_data); a dict
\* with other keys raises TypeError, caught after the finally released
HCall ==
    /\ pc[H] = "h_admitted"
    /\ IF WellFormed(cur)
       THEN /\ pc' = [pc EXCEPT ![H] = "cui_enter"]
            /\ UNCHANGED <<sem, active_tasks, dpc, cur>>
       ELSE CuiReturn(H, "done", sem, active_tasks)
    /\ UNCHANGED <<max_concurrent, overloaded, task_queue, put, admitted>>
    /\ UNCHANGED <<evars, ovars, pvars, cvars>>

\* the handler task is cancelled at a suspension point: every finally on the
\* way releases; CancelledError is not an Exception, so it leaves
\* _handle_single_task and, through the await of line 409, _process_task_queue
CancelHandler ==
    /\ pc[H] \in {"h_semwait", "h_backoff", "cui_semwait", "cui_prepare", "cui_exec"}
    /\ sem' = CASE pc[H] \in {"h_semwait", "h_backoff"} -> sem
                [] pc[H] = "cui_semwait" -> sem + 1
                [] pc[H] \in {"cui_prepare", "cui_exec"} -> sem + 2
    /\ active_tasks' = active_tasks \ {H}
    /\ pc' = [pc EXCEPT ![H] = "h_idle"]
    /\ dpc' = "stopped"
    /\ cur' = NoItem
    /\ UNCHANGED <<max_concurrent, overloaded, task_queue, put, admitted>>
    /\ UNCHANGED <<evars, ovars, pvars, cvars>>

ANext ==
    \/ \E t \in DirectReqs \cup {H} : CuiAdmission(t)
    \/ \E t \in AsyncTasks : SemGrant(t)
    \/ \E t \in DirectReqs \cup {H} : CuiPrepare(t)
    \/ \E t \in DirectReqs \cup {H} : CuiExecute(t)
    \/ \E p \in ProcReqs : ProcAdmission(p)
    \/ \E t \in DirectReqs \cup ProcReqs : Cancel(t)
    \/ \E q \in QueuedReqs : Enqueue(q)
    \/ DispatchGet
    \/ HAdmission
    \/ HBackoffEnd
    \/ HCall
    \/ CancelHandler

vars == <<evars, avars, ovars, pvars, cvars>>

(***************************************************************************)
(* Spec: one request in the executor; the admission layer is at rest.      *)
(***************************************************************************)
Init == EInit /\ AInit(1) /\ OInit({DefaultDescription}) /\ PInit /\ CInit("idle")

Next == ENext

Spec == Init /\ [][Next]_vars

\* the event loop keeps running a coroutine whose awaited call has returned:
\* the request takes a step whenever one is possible
NextFair == ENextPlain

SpecFair == Init /\ [][NextFair]_vars /\ WF_vars(NextFair)

(***************************************************************************)
(* SpecCui: one request whose execute_tools is consumed by chat_ui_process. *)
(***************************************************************************)
\* the request was admitted and chat_ui_process is at line 690
InitCui ==
    /\ EInit /\ AInit(1) /\ OInit({DefaultDescription}) /\ PInit
    /\ CInit("running")

NextCui == ENextCui

SpecCui == InitCui /\ [][NextCui]_vars

(***************************************************************************)
(* SpecAdm: concurrent requests, the dispatcher and the resource manager;  *)
(* the executor of each request is reduced to the way it ends.             *)
(***************************************************************************)
InitAdm ==
    /\ EInit /\ verbose = TRUE /\ OInit({DefaultDescription}) /\ PInit /\ CInit("idle")
    /\ \E m \in 1..MaxConfigured : AInit(m)

NextAdm == ANext

SpecAdm == InitAdm /\ [][NextAdm]_vars

\* the steps the event loop itself takes: a coroutine that can go on is run.
\* Cancellations and new queue items come from outside and are promised by
\* nothing.
AScheduled ==
    \/ \E t \in DirectReqs \cup {H} : CuiAdmission(t)
    \/ \E t \in AsyncTasks : SemGrant(t)
    \/ \E t \in DirectReqs \cup {H} : CuiPrepare(t)
    \/ \E t \in DirectReqs \cup {H} : CuiExecute(t)
    \/ \E p \in ProcReqs : ProcAdmission(p)
    \/ DispatchGet
    \/ HAdmission
    \/ HBackoffEnd
    \/ HCall

SpecAdmFair == SpecAdm /\ WF_vars(AScheduled)

(***************************************************************************)
(* SpecOpt: one call of optimize_parameters for every tool description.    *)
(***************************************************************************)
InitOpt ==
    /\ EInit /\ verbose = TRUE /\ AInit(1) /\ OInit(ToolDescriptions) /\ PInit
    /\ CInit("idle")

NextOpt == ONext

SpecOpt == InitOpt /\ [][NextOpt]_vars

(***************************************************************************)
(* SpecPlans: several plans run serial_execute_tools concurrently with     *)
(* verbose = True (with verbose = False no task ever completes).           *)
(***************************************************************************)
InitPlans ==
    /\ EInit /\ verbose = TRUE /\ AInit(1) /\ OInit({DefaultDescription}) /\ PInit
    /\ CInit("idle")

NextPlans == PNext

SpecPlans == InitPlans /\ [][NextPlans]_vars

(***************************************************************************)
(* Properties of one request in the executor (specification Spec)          *)
(***************************************************************************)
Succeeded == {k \in 1..Len(tasks) : status[k] = "ok"}
Failed == {k \in 1..Len(tasks) : status[k] = "failed"}
RegisteredCandidates(resp) ==
    {k \in 1..Len(resp.tasks) : resp.tasks[k].is_dict /\ resp.tasks[k].tool_name \in Tools}

\* C1: when parse_intent returns a plan with zero tasks, execute_tools yields
\* the "no suitable tool" error event as its only result event and stops;
\* no parameter model call and no tool.run() happens for the request.
C1_EmptyPlanNoTool ==
    (epc # "start" /\ Len(intent_result) = 0) =>
        /\ ~optCalled
        /\ invoked = {}
        /\ epc \in {"parsed", "done"}
        /\ epc = "parsed" => events = <<>>
        /\ epc = "done" => events = <<NoToolEvent>>

C1_Witness ==
    /\ epc = "done"
    /\ Len(intent_result) = 0
    /\ events = <<NoToolEvent>>

\* C2: the tasks run one at a time in non-decreasing order, ties in the
\* position they had in the plan: whenever a task has started, every task
\* executed before it has completed or failed, has an order not larger, and
\* on equal order stood earlier in the plan; the executed list is a
\* rearrangement of the plan.
C2_OrderInvariant ==
    (epc \in {"serial", "done"}) =>
        /\ {tasks[k].pos : k \in 1..Len(tasks)} = 1..Len(tasks)
        /\ \A k \in 1..Len(tasks) : \A j \in 1..Len(tasks) :
             (k < j /\ status[j] # "pending") =>
                /\ status[k] \in {"ok", "failed"}
                /\ tasks[k].order <= tasks[j].order
                /\ tasks[k].order = tasks[j].order => tasks[k].pos < tasks[j].pos

\* the plan [{order:2, A}, {order:1, B}]: B has ended and A is running
C2_Witness ==
    /\ epc = "serial"
    /\ Len(tasks) = 2
    /\ tasks[1].pos = 2 /\ tasks[1].order = 1
    /\ tasks[2].pos = 1 /\ tasks[2].order = 2
    /\ status[1] \in {"ok", "failed"}
    /\ status[2] = "running"
    /\ runCalls > 0

\* C3: when the plan has ended, every task that comes after a failed task in
\* the sorted plan has had its tool invoked at least once.
C3_IsolationExecution ==
    (epc = "done") =>
        \A k \in 1..Len(tasks) : \A j \in 1..Len(tasks) :
            (k < j /\ status[k] = "failed") => j \in invoked

C3_Witness ==
    /\ epc = "done"
    /\ Len(tasks) >= 2
    /\ status[1] = "failed"
    /\ 2 \in invoked
    /\ status[2] = "ok"

\* C4: in the final aggregate the result map has one entry per task that
\* completed successfully and none for a failed task: as many entries as
\* successful tasks, and each successful task's own result is among them.
C4_AggregateExact ==
    (epc = "done" /\ events # <<>> /\ events[Len(events)].type = "aggregate") =>
        LET res == events[Len(events)].result
        IN /\ Len(res) = Cardinality(Succeeded)
           /\ \A k \in Succeeded : \E e \in 1..Len(res) : res[e].pos = tasks[k].pos
           /\ \A k \in Failed : ~\E e \in 1..Len(res) : res[e].pos = tasks[k].pos

\* C5: for a task whose tool raises on every invocation, under any setting of
\* the executor: every pass of the retry loop invokes run(), there are at most
\* 3 passes and 3 invocations, and the task fails after exactly 3 invocations.
C5_RetryBound ==
    (epc = "serial" /\ allRaised) =>
        /\ iter <= max_retries
        /\ runCalls <= max_retries
        /\ tpc = "loop" => runCalls = iter
        /\ tpc = "raised" => runCalls = max_retries

\* C29: the parameter optimizer is run at the start of every tool attempt, so
\* one task makes at most 3 optimizer runs, each of at most 3 parameter model
\* calls (9 in all), and a tool is invoked only with the outcome of the
\* optimizer run of its own attempt.
C29_OptimizerPerAttempt ==
    epc = "serial" =>
        /\ iter <= max_retries
        /\ opt_retry <= opt_max_retries
        /\ tpc = "optimizing" => iter >= 1
        /\ runCalls <= iter

\* C10: every task of the plan returned by parse_intent names a registered
\* tool; the plan has one task per candidate that is an object naming a
\* registered tool, so the other candidates are dropped, and the plan is
\* empty when no candidate is left.
C10_PlanOnlyRegistered ==
    /\ \A k \in 1..Len(intent_result) : intent_result[k].tool_name \in Tools
    /\ epc = "parsed" =>
          /\ BodyException(response) = "none" =>
                Len(intent_result) = Cardinality(RegisteredCandidates(response))
          /\ RegisteredCandidates(response) = {} => intent_result = <<>>

\* the model named FooTool and a registered tool: only the latter is planned
C10_Witness ==
    /\ epc = "parsed"
    /\ Len(response.tasks) = 2
    /\ response.tasks[1].is_dict /\ response.tasks[1].tool_name = "FooTool"
    /\ response.tasks[2].tool_name = "WeatherTool"
    /\ Len(intent_result) = 1
    /\ intent_result[1].tool_name = "WeatherTool"

\* the model's answer is a JSON object whose "tasks" can be iterated
ParsesAsPlan(resp) == resp.shape = "plan"

\* C11: parse_intent never raises: whatever the model call gives, no exception
\* leaves it and it returns a plan; the plan has zero tasks whenever the
\* answer is not a JSON plan (no answer, not JSON, not an object, "tasks"
\* not iterable) and whenever a candidate makes the loop raise.
C11_ParseNeverRaises ==
    /\ parse_exc = "none"
    /\ epc = "parsed" =>
          /\ ~ParsesAsPlan(response) => intent_result = <<>>
          /\ BodyException(response) # "none" => intent_result = <<>>

\* the answer lists a registered tool and then a task whose tool_name is a
\* JSON array: the TypeError of the lookup is caught, the plan is empty
C11_Witness ==
    /\ epc = "parsed"
    /\ Len(response.tasks) = 2
    /\ response.tasks[1].is_dict /\ response.tasks[1].tool_name = "WeatherTool"
    /\ response.tasks[2].is_dict /\ response.tasks[2].tool_name = Unhashable
    /\ parse_exc = "none"
    /\ intent_result = <<>>

(***************************************************************************)
(* Properties of admission control (specification SpecAdm)                 *)
\* the last event execute_tools yielded is the aggregate or an error
EndedWithOutcome ==
    /\ epc = "done"
    /\ Len(events) >= 1
    /\ events[Len(events)].type \in {"aggregate", "error", "error_dict"}

\* C14: when every model call and every tool call returns, execute_tools
\* terminates for every plan and every setting of the executor, having
\* yielded the final aggregate or an error event.
C14_NoHang == <>EndedWithOutcome

\* optimize_parameters gave {tool_name: {}} for the current task
\* (lines 372-383) and _execute_single_tool is at line 576
OptimizerGaveUp == epc = "serial" /\ tpc = "optimizing" /\ optimized_result = "empty"

\* C17: when the optimizer has failed its 3 attempts for a task, the tool of
\* that task is still invoked (with the empty parameter set), and the plan
\* runs to its end.
C17_EmptyParamsStillRun ==
    /\ OptimizerGaveUp ~> (epc = "serial" /\ i \in invoked)
    /\ OptimizerGaveUp ~> EndedWithOutcome

\* C20: whatever mix of raised errors, None results and successes the tool
\* of a task produces, run() is invoked at most 3 times; every invocation
\* that raised or returned None has used up one attempt of the one counter;
\* a task is marked failed only after exactly 3 invocations, so a tool that
\* always returns None is invoked exactly 3 times before that.
C20_SharedRetryBudget ==
    /\ runCalls <= max_retries
    /\ noneCalls <= runCalls
    /\ (epc = "serial" /\ tpc \in {"loop", "optimizing", "raised"}) =>
          current_retry = runCalls
    /\ (epc = "serial" /\ tpc = "raised") => runCalls = max_retries

\* the tool returned None three times and the task is about to be marked
\* failed
C20_Witness ==
    /\ epc = "serial" /\ tpc = "raised"
    /\ noneCalls = max_retries /\ runCalls = max_retries

\* C22: in every plan returned by parse_intent the task ids are pairwise
\* distinct, whatever the model answered.
C22_UniqueTaskIds ==
    \A j, k \in 1..Len(intent_result) :
        j # k => intent_result[j].id # intent_result[k].id

\* index in tasks of the task that produced a history entry
ProducerOf(e) == CHOOSE k \in 1..Len(tasks) : tasks[k].pos = e.pos

\* C23: while a plan runs, the history built for the optimizer holds exactly
\* one entry for each task that completed successfully so far, in execution
\* order, and none for a failed task; and no step of the plan changes or
\* removes an entry the context already holds.
C23_ContextAppendOnly ==
    /\ [](epc = "serial" =>
            LET history == build_tool_context(context)
            IN /\ Len(history) = Cardinality(Succeeded)
               /\ \A k \in Succeeded : \E j \in 1..Len(history) : history[j].pos = tasks[k].pos
               /\ \A j \in 1..Len(history) : ProducerOf(history[j]) \in Succeeded
               /\ \A j, l \in 1..Len(history) :
                     j < l => ProducerOf(history[j]) < ProducerOf(history[l]))
    /\ [][epc = "serial" =>
            \A j \in 1..Len(context) : j <= Len(context') /\ context'[j] = context[j]]_vars

\* C21: a failure of the formatting of a tool's result makes the attempt
\* fail: the text of a formatting failure is never stored as the result of a
\* task, neither in the context nor in the aggregate result map, and a task
\* whose formatting failed is not counted as succeeded.
C21_FormatFailureRetried ==
    /\ \A k \in 1..Len(tools_result) : tools_result[k].result # "format_error"
    /\ \A k \in 1..Len(context) : context[k].result # "format_error"

Aggregates == {k \in 1..Len(events) : events[k].type = "aggregate"}

\* C19: for every non-empty plan the final aggregate is emitted exactly
\* once, as the last event, after every task was attempted; no aggregate is
\* emitted while a task is pending.
C19_DoneEmission ==
    /\ Cardinality(Aggregates) <= 1
    /\ Aggregates # {} =>
          /\ Aggregates = {Len(events)}
          /\ \A k \in 1..Len(tasks) : status[k] \in {"ok", "failed"}
    /\ (epc = "done" /\ intent_result # <<>>) => Aggregates # {}

\* C24: a request run through chat_ui_process whose plan is empty is
\* reported as failed: the error event is emitted, the request does not set
\* MasterAgent.status to SUCCESS and no completion notice follows the error.
C24_EmptyPlanFails ==
    (epc \in {"abandoned", "returned"} /\ intent_result = <<>>) =>
        /\ \E k \in 1..Len(cui_out) : cui_out[k].type = "error"
        /\ agent_status # "success"
        /\ \A k \in 1..Len(cui_out) : cui_out[k] # CompletionNotice

\* the request is over: execute_tools returned or its consumer left it
RequestOver == epc \in {"done", "abandoned", "returned"}

\* C15: in a request driven through chat_ui_process, a task whose retries
\* are exhausted does not abort the plan: when the request is over every
\* task of the plan was attempted and the final aggregate was yielded.
C15_FailureKeepsPlan ==
    (RequestOver /\ Failed # {}) =>
        /\ \A k \in 1..Len(tasks) : status[k] \in {"ok", "failed"}
        /\ Len(events) >= 1 /\ events[Len(events)].type = "aggregate"

(***************************************************************************)
(* Properties of the parameter optimizer (SpecOpt)                         *)
(***************************************************************************)
OptYielded == o_pc \in {"yielded", "done"}

\* C12: one call of optimize_parameters calls the model at most 3 times and
\* yields exactly one result; when every pass fails (and each pass reached
\* the model) the model was called exactly 3 times and the result is the
\* empty parameter set; when a pass validates, its answer is the result and
\* the model is not called again.
C12_OptimizerRetryBound ==
    /\ o_calls + o_precall <= opt_max_retries
    /\ Len(o_results) = (IF OptYielded THEN 1 ELSE 0)
    /\ o_pc = "loop" => o_retry < opt_max_retries /\ o_calls + o_precall = o_retry
    /\ (OptYielded /\ ~o_validated) =>
          /\ o_results[1] = EmptyParams
          /\ o_retry = opt_max_retries
          /\ o_calls + o_precall = opt_max_retries
          /\ o_precall = 0 => o_calls = 3
    /\ (OptYielded /\ o_validated) =>
          /\ validate_parameters(o_results[1], o_desc)
          /\ o_calls + o_precall = o_retry + 1

\* three answers that fail, the empty result, and the generator has returned
C12_Witness ==
    /\ o_pc = "done" /\ ~o_validated
    /\ o_calls = 3 /\ o_precall = 0
    /\ o_results = <<EmptyParams>>

\* C13: a non-empty parameter set is yielded only if _validate_parameters
\* accepted it, and _validate_parameters accepts a set exactly when every
\* required parameter is supplied and every supplied parameter whose schema
\* has an enum (plain list, or list of {name, description}) has one of the
\* enum's names as its value.
C13_ParameterValidation ==
    /\ \A k \in 1..Len(o_results) :
          o_results[k] # EmptyParams => validate_parameters(o_results[k], o_desc)
    /\ \A ps \in ParamSets :
          validate_parameters(ps, o_desc) <=>
             /\ \A p \in SchemaParams : o_desc[p].required => p \in Supplied(ps)
             /\ \A p \in Supplied(ps) \cap SchemaParams :
                   o_desc[p].enum # "none" => ps[p] \in EnumNames

\* a validated answer after one rejected answer: "language" is required and
\* "mode" has an enum of {name, description} objects
C13_Witness ==
    /\ o_pc = "done" /\ o_validated /\ o_retry = 1
    /\ o_desc["language"].required /\ o_desc["mode"].enum = "dict_list"
    /\ o_results[1]["mode"] = "auto" /\ o_results[1]["language"] # Absent
    /\ \E ps \in ParamSets : ps["mode"] = "fr" /\ ~validate_parameters(ps, o_desc)

(***************************************************************************)
\* slots a task holds by its position: between an acquire() that returned
\* True and the matching release(); the handler task holds its own slot and,
\* inside chat_ui_process, a second one
HeldSlots(t) ==
    IF t = H
    THEN CASE pc[H] \in {"h_admitted", "cui_enter", "cui_semwait"} -> 1
           [] pc[H] \in {"cui_prepare", "cui_exec"} -> 2
           [] OTHER -> 0
    ELSE IF pc[t] \in {"cui_prepare", "cui_exec", "p_wait"} THEN 1 ELSE 0

RECURSIVE SumHeld(_)
SumHeld(S) ==
    IF S = {} THEN 0
    ELSE LET t == CHOOSE x \in S : TRUE IN HeldSlots(t) + SumHeld(S \ {t})

InFlight(t) == pc[t] \notin {"cui_enter", "p_enter", "h_idle", "done"} \/ (t = H /\ pc[H] # "h_idle")

Occurrences(q, r) == Cardinality({k \in 1..Len(q) : q[k] = r})

\* C6: at most MAX_CONCURRENT requests hold a slot, and at most
\* MAX_CONCURRENT are inside execute_tools; with every slot taken a further
\* request is not in the executor.
C6_AdmissionBound ==
    /\ Cardinality({t \in AsyncTasks : HeldSlots(t) >= 1}) <= max_concurrent
    /\ Cardinality({t \in AsyncTasks : pc[t] = "cui_exec"}) <= max_concurrent
    /\ sem >= 0

\* MAX_CONCURRENT = 2: two requests are in the executor, the third waits
\* for a slot
C6_Witness ==
    /\ max_concurrent = 2
    /\ pc[1] = "cui_exec"
    /\ pc[2] = "cui_exec"
    /\ \E p \in ProcReqs : pc[p] = "p_semwait"

\* a task whose next step is the call of acquire()
CallsAcquire(t) ==
    \/ pc[t] = "cui_enter" /\ Cardinality(active_tasks) < max_concurrent
    \/ pc[t] = "p_enter" /\ Cardinality(active_tasks) < process_busy_threshold
    \/ pc[t] = "h_start"

\* C7: a call of acquire() made while the load predicate reports overloaded
\* returns False at once: the caller does not wait on the semaphore and takes
\* no slot, whatever the number of free slots. (In the handler task the
\* refusal inside chat_ui_process is followed at once by the release of the
\* handler's own slot.)
C7_OverloadRefusal ==
    [][\A t \in AsyncTasks :
          (CallsAcquire(t) /\ pc'[t] # pc[t] /\ overloaded') =>
             /\ active_tasks' \ {H} = active_tasks \ {H}
             /\ CASE pc[t] = "h_start" -> pc'[t] = "h_backoff" /\ sem' = sem
                  [] t = H /\ pc[t] = "cui_enter" -> pc'[t] = "h_idle" /\ sem' = sem + 1
                  [] OTHER -> pc'[t] = "done" /\ sem' = sem]_vars

\* the handler's acquire() was refused while a direct request holds the
\* last slot
C7_Witness ==
    /\ sem = 0
    /\ overloaded
    /\ \E t \in DirectReqs : pc[t] = "cui_exec"
    /\ pc[H] = "h_backoff"

\* C26: a call of acquire() that returns False changes nothing: the free
\* semaphore slots and the active-task set are what they were before the
\* call, and the call leaves its caller no slot. (In the handler task the
\* refusal inside chat_ui_process is followed at once by the release of the
\* slot the handler took in _handle_single_task.)
C26_RefusedAcquireFrame ==
    [][\A t \in AsyncTasks :
          (/\ CallsAcquire(t)
           /\ pc'[t] \notin {pc[t], "cui_prepare", "cui_semwait", "p_wait",
                              "p_semwait", "h_admitted", "h_semwait"}) =>
             LET own == IF t = H /\ pc[t] = "cui_enter" THEN 1 ELSE 0 IN
             /\ sem' = sem + own
             /\ active_tasks' = IF own = 1 THEN active_tasks \ {H}
                                            ELSE active_tasks
             /\ HeldSlots(t)' = 0
             /\ SumHeld(AsyncTasks)' = SumHeld(AsyncTasks) - own]_vars

\* the handler's acquire() was just refused while every slot was free: every
\* slot is still free, no task is active and the handler holds nothing
C26_Witness ==
    /\ pc[H] = "h_backoff"
    /\ overloaded
    /\ sem = max_concurrent
    /\ active_tasks = {}
    /\ HeldSlots(H) = 0

\* C27: accounting agreement: in every state get_active_tasks(), the size of
\* the active-task set, equals the number of semaphore slots held, for
\* requests entering through the dispatcher and for direct calls of
\* chat_ui_process alike; in particular it is not 0 while a slot is held.
C27_AccountingAgreement ==
    /\ Cardinality(active_tasks) = SumHeld(AsyncTasks)
    /\ SumHeld(AsyncTasks) > 0 => Cardinality(active_tasks) > 0

\* C28: admitted means executed: for every MAX_CONCURRENT >= 1 the handler of
\* a well-formed request that the dispatcher admitted does not finish (the
\* dispatcher going back to the queue) unless execute_tools was invoked for
\* the request, the host not being overloaded meanwhile.
C28_AdmittedMeansExecuted ==
    [][(/\ pc[H] \in {"h_admitted", "cui_enter", "cui_semwait", "cui_prepare",
                      "cui_exec"}
        /\ cur \in admitted
        /\ WellFormed(cur)
        /\ ~overloaded'
        /\ pc'[H] = "h_idle"
        /\ dpc' = "get") => pc[H] = "cui_exec"]_vars

\* C30: serial FIFO dispatch: the dispatcher has at most one request in
\* hand; it takes a request only when the handler of the previous one has
\* finished, and then the one at the head of the queue; the queue changes
\* otherwise only by an append at its tail, which is where a request refused
\* admission goes, behind everything queued before the refusal.
C30_SerialFifoDispatch ==
    /\ []((cur # NoItem) <=> (pc[H] # "h_idle"))
    /\ [](pc[H] # "h_idle" => dpc = "handling")
    /\ [][cur' \notin {cur, NoItem} =>
            /\ cur = NoItem /\ pc[H] = "h_idle" /\ dpc = "get"
            /\ task_queue # <<>>
            /\ cur' = Head(task_queue)
            /\ task_queue' = Tail(task_queue)]_vars
    /\ [][(task_queue' # task_queue /\ cur' = cur) =>
            /\ Len(task_queue') = Len(task_queue) + 1
            /\ SubSeq(task_queue', 1, Len(task_queue)) = task_queue
            /\ pc[H] = "h_start" /\ pc'[H] = "h_backoff" =>
                   task_queue'[Len(task_queue')] = cur]_vars

\* a request refused admission while another request was waiting in the
\* queue is back in the queue behind it, the handler sleeping its backoff
C30_Witness ==
    /\ pc[H] = "h_backoff"
    /\ dpc = "handling"
    /\ Len(task_queue) >= 2
    /\ task_queue[Len(task_queue)] = cur
    /\ task_queue[1] # cur

\* C8: free slots + held slots = MAX_CONCURRENT in every state, the free
\* slots never exceed MAX_CONCURRENT, and all slots are free when no request
\* is in flight: every successful acquire() is paired with one release() on
\* every exit path and release() is never called otherwise.
C8_TicketDiscipline ==
    /\ sem + SumHeld(AsyncTasks) = max_concurrent
    /\ sem <= max_concurrent
    /\ (\A t \in AsyncTasks : ~InFlight(t)) => sem = max_concurrent

\* a queued request was admitted and executed, every request has ended and
\* every slot is free again
C8_Witness ==
    /\ \E q \in QueuedReqs : q \in admitted
    /\ \A t \in AsyncTasks : ~InFlight(t)
    /\ \E t \in DirectReqs : pc[t] = "done"
    /\ sem = max_concurrent
    /\ max_concurrent = 2

\* C9: while the dispatcher runs, a request put on the queue and not yet
\* admitted is in exactly one place: in the queue, or taken by the handler;
\* after a refusal it is back in the queue while the handler sleeps its
\* backoff.
C9_RequeueNoLoss ==
    (dpc # "stopped") =>
        \A r \in put \ admitted :
            \/ /\ Occurrences(task_queue, r) = 1
               /\ cur = r => pc[H] = "h_backoff"
            \/ /\ Occurrences(task_queue, r) = 0
               /\ cur = r
               /\ pc[H] \in {"h_start", "h_semwait"}

\* a request was refused: it is back in the queue, once, while the handler
\* sleeps its backoff
C9_Witness ==
    pc[H] = "h_backoff" /\ Occurrences(task_queue, cur) = 1 /\ dpc # "stopped"

\* C16: the dispatcher loop never stops: whenever the handling of a queued
\* request is over, however it ended (exception, refusal, malformed request,
\* cancellation of the handler), _process_task_queue is back at
\* task_queue.get() for the next request.
C16_DispatcherSurvives ==
    /\ dpc # "stopped"
    /\ pc[H] = "h_idle" => dpc = "get"

\* C25: every call of MasterAgent.process that waits on its result future
\* eventually returns, and has released its slot when it does (it is enough
\* here that this holds while the dispatcher is alive).
C25_ProcessAnswers ==
    \A p \in ProcReqs :
        (pc[p] = "p_wait") ~>
            ((pc[p] = "done" /\ p \notin active_tasks) \/ dpc = "stopped")

(***************************************************************************)
(* Properties of concurrent plans (SpecPlans)                              *)
(***************************************************************************)
\* C18: whatever the interleaving of concurrent plans, every entry of a
\* plan's context and of its result map was produced by a task of that plan
\* and is stored under that task's id as assigned by that plan, and the
\* global task_id a plan reads is the one it wrote itself.
C18_PlanPrivateState ==
    \A p \in Plans :
        /\ \A e \in pl_context[p] \cup pl_result[p] :
              /\ e.owner = p
              /\ e.keyplan = p
              /\ e.key = TaskIdOf(p, e.pos)
        /\ pl_read[p] \in {NoPlan, p}

\* plan 1 stored a result, leaving its id in the global task_id and its
\* links in link_text; plan 2 then stored both its results while plan 1 is
\* still running
C18_Witness ==
    /\ Cardinality(pl_result[2]) = 2
    /\ pl_result[1] # {}
    /\ pl_pc[1] = "task"
    /\ g_task_id.plan = 2
    /\ g_link_text = 1

====
